---- MODULE Spec2Model ----
(***************************************************************************)
(* Model of the queued receipt-printer server (src/src/server.js).         *)
(*                                                                         *)
(* Node.js runs one callback at a time, so each action below is one        *)
(* event-loop turn: a request handler up to its first await, the           *)
(* continuation of an await, or the continuation of processQueue after     *)
(* the job's promise has settled.  A job is identified with the request    *)
(* that enqueued it.                                                       *)
(***************************************************************************)
EXTENDS Integers, Sequences, FiniteSets, TLC

\* Number of HTTP submissions considered.
MaxReq == 3

Requests == 1..MaxReq

\* Request bodies: the "text" field of POST /print ("" stands for a missing
\* or empty field, both falsy in `if (!text)`).
Texts == {"", "hello"}

\* Uploads of POST /print-image: no file part, a part whose mimetype is not
\* image/*, image bytes sharp cannot decode, image bytes sharp decodes.
Files == {"nofile", "notimage", "corrupt", "good"}

VARIABLES
    printQueue,                 \* const printQueue = []  (pending job ids)
    isPrinting,                 \* let isPrinting = false
    receiptAcceptanceEnabled,   \* let receiptAcceptanceEnabled = true
    executing,                  \* jobs whose job() promise is pending
    startOrder,                 \* jobs in the order job() was called
    enqOrder,                   \* jobs in the order enqueue() was called
    outcome,                    \* per job: "none", "ok" or "failed"
    nReq,                       \* number of requests received so far
    kind,                       \* per request: "none", "text" or "image"
    file,                       \* per image request: its upload
    phase,                      \* per request: position of its handler
    resp,                       \* per request: HTTP status sent, or "none"
    rootN,                      \* root-level server: requests received
    rootReq,                    \* root-level server: per request, its state
    textJob,                    \* one run of printTextReceipt
    paper                       \* what the device has printed so far

\* State of the root-level server (src/server.js), which has no queue.
rootVars == <<rootN, rootReq>>

\* State of a text job and of the device it prints on.
jobVars == <<textJob, paper>>

vars == <<printQueue, isPrinting, receiptAcceptanceEnabled, executing,
          startOrder, enqOrder, outcome, nReq, kind, file, phase, resp,
          rootVars, jobVars>>

\* ------------------------------------------------------------------------
\* The print queue, as a record so that the functions compose as in the code.

QState ==
    [printQueue |-> printQueue, isPrinting |-> isPrinting,
     executing |-> executing, startOrder |-> startOrder,
     enqOrder |-> enqOrder]

SetQ(q) ==
    /\ printQueue' = q.printQueue
    /\ isPrinting' = q.isPrinting
    /\ executing' = q.executing
    /\ startOrder' = q.startOrder
    /\ enqOrder' = q.enqOrder

\* processQueue with the isPrinting test of the guard left out.
processQueueNoFlagGuard(q) ==
    IF Len(q.printQueue) = 0 THEN q
    ELSE [q EXCEPT !.isPrinting = TRUE,
                   !.printQueue = Tail(q.printQueue),
                   !.executing = @ \cup {Head(q.printQueue)},
                   !.startOrder = Append(@, Head(q.printQueue))]

\* processQueue taking the job with pop() instead of shift().
processQueuePop(q) ==
    IF q.isPrinting \/ Len(q.printQueue) = 0 THEN q
    ELSE LET n == Len(q.printQueue) IN
         [q EXCEPT !.isPrinting = TRUE,
                   !.printQueue = SubSeq(q.printQueue, 1, n - 1),
                   !.executing = @ \cup {q.printQueue[n]},
                   !.startOrder = Append(@, q.printQueue[n])]

\* processQueue that forgets to raise the flag.
processQueueNoFlagSet(q) ==
    IF q.isPrinting \/ Len(q.printQueue) = 0 THEN q
    ELSE [q EXCEPT !.printQueue = Tail(q.printQueue),
                   !.executing = @ \cup {Head(q.printQueue)},
                   !.startOrder = Append(@, Head(q.printQueue))]

\* processQueue that reads the head job without shift()ing it.
processQueuePeek(q) ==
    IF q.isPrinting \/ Len(q.printQueue) = 0 THEN q
    ELSE [q EXCEPT !.isPrinting = TRUE,
                   !.executing = @ \cup {Head(q.printQueue)},
                   !.startOrder = Append(@, Head(q.printQueue))]

\* processQueue that raises the flag before testing the guard.
processQueueFlagFirst(q) ==
    IF q.isPrinting \/ Len(q.printQueue) = 0
    THEN [q EXCEPT !.isPrinting = TRUE]
    ELSE [q EXCEPT !.isPrinting = TRUE,
                   !.printQueue = Tail(q.printQueue),
                   !.executing = @ \cup {Head(q.printQueue)},
                   !.startOrder = Append(@, Head(q.printQueue))]

\* processQueue, lines 40-48: the synchronous part, up to `await job()`.
processQueue(q) ==
    IF q.isPrinting \/ Len(q.printQueue) = 0 THEN q
    ELSE [q EXCEPT !.isPrinting = TRUE,
                   !.printQueue = Tail(q.printQueue),
                   !.executing = @ \cup {Head(q.printQueue)},
                   !.startOrder = Append(@, Head(q.printQueue))]

\* enqueue that only pushes.
enqueueNoDrain(q, job) ==
    [q EXCEPT !.printQueue = Append(@, job), !.enqOrder = Append(@, job)]

\* enqueue, lines 57-60.
enqueue(q, job) ==
    processQueue([q EXCEPT !.printQueue = Append(@, job),
                           !.enqOrder = Append(@, job)])

\* A continuation that resets the flag and does not drain again.
resumeResolvedNoDrain(q, job) ==
    [q EXCEPT !.isPrinting = FALSE, !.executing = @ \ {job}]

\* The continuation of processQueue after job() resolved: lines 53-54.
resumeResolved(q, job) ==
    processQueue([q EXCEPT !.isPrinting = FALSE,
                           !.executing = @ \ {job}])

\* A rejection that escapes processQueue: nothing after the await runs.
resumeRejectedUncaught(q, job) ==
    [q EXCEPT !.executing = @ \ {job}]

\* A rejection whose handler clears what is pending.
resumeRejectedFlush(q, job) ==
    processQueue([q EXCEPT !.isPrinting = FALSE,
                           !.executing = @ \ {job},
                           !.printQueue = << >>])

\* The continuation of processQueue after job() rejected: lines 49-54.
\* The catch block only logs.
resumeRejected(q, job) ==
    processQueue([q EXCEPT !.isPrinting = FALSE,
                           !.executing = @ \ {job}])

\* A catch block that reports the failure to the job's submitter.
catchResponsesReport(rs, job) == [rs EXCEPT ![job] = "500"]

\* What the catch block of processQueue does to the HTTP responses
\* (line 50: it logs, and touches no response).
catchResponses(rs, job) == rs

\* getQueueStatus, lines 62-64.
getQueueStatus == [length |-> Len(printQueue), printing |-> isPrinting]

\* ------------------------------------------------------------------------
\* Number of requests to the root-level server considered.
MaxRootReq == 3

RootRequests == 1..MaxRootReq

\* A request the root-level server has not received yet.
RootIdle == [kind |-> "none", file |-> "nofile", phase |-> "idle",
             resp |-> "none"]

\* No text job has been created yet.
TextJobIdle == [pc |-> "idle", exec |-> "none", text |-> "", domain |-> "",
                log |-> << >>, n |-> 0]

Init ==
    /\ printQueue = << >>
    /\ isPrinting = FALSE
    /\ receiptAcceptanceEnabled = TRUE
    /\ executing = {}
    /\ startOrder = << >>
    /\ enqOrder = << >>
    /\ outcome = [r \in Requests |-> "none"]
    /\ nReq = 0
    /\ kind = [r \in Requests |-> "none"]
    /\ file = [r \in Requests |-> "nofile"]
    /\ phase = [r \in Requests |-> "idle"]
    /\ resp = [r \in Requests |-> "none"]
    /\ rootN = 0
    /\ rootReq = [r \in RootRequests |-> RootIdle]
    /\ textJob = TextJobIdle
    /\ paper = << >>

\* POST /print registered without the requireAcceptance middleware.
PrintTextNoGate(text) ==
    /\ nReq < MaxReq
    /\ LET r == nReq + 1 IN
       /\ nReq' = r
       /\ kind' = [kind EXCEPT ![r] = "text"]
       /\ phase' = [phase EXCEPT ![r] = "done"]
       /\ IF text = ""
          THEN /\ resp' = [resp EXCEPT ![r] = "400"]
               /\ SetQ(QState)
          ELSE /\ SetQ(enqueue(QState, r))
               /\ resp' = [resp EXCEPT ![r] = "200"]
    /\ UNCHANGED <<receiptAcceptanceEnabled, outcome, file>>
    /\ UNCHANGED <<rootVars, jobVars>>

\* POST /print, lines 183-199, behind requireAcceptance (158-166).
PrintText(text) ==
    /\ nReq < MaxReq
    /\ LET r == nReq + 1 IN
       /\ nReq' = r
       /\ kind' = [kind EXCEPT ![r] = "text"]
       /\ phase' = [phase EXCEPT ![r] = "done"]
       /\ IF ~receiptAcceptanceEnabled
          THEN /\ resp' = [resp EXCEPT ![r] = "403"]
               /\ SetQ(QState)
          ELSE IF text = ""
          THEN /\ resp' = [resp EXCEPT ![r] = "400"]
               /\ SetQ(QState)
          ELSE /\ SetQ(enqueue(QState, r))
               /\ resp' = [resp EXCEPT ![r] = "200"]
    /\ UNCHANGED <<receiptAcceptanceEnabled, outcome, file>>
    /\ UNCHANGED <<rootVars, jobVars>>

\* POST /print-image arrives: requireAcceptance (158-166), then multer
\* starts reading the multipart body (line 202).
PrintImageAccept(f) ==
    /\ nReq < MaxReq
    /\ LET r == nReq + 1 IN
       /\ nReq' = r
       /\ kind' = [kind EXCEPT ![r] = "image"]
       /\ file' = [file EXCEPT ![r] = f]
       /\ IF ~receiptAcceptanceEnabled
          THEN /\ resp' = [resp EXCEPT ![r] = "403"]
               /\ phase' = [phase EXCEPT ![r] = "done"]
          ELSE /\ resp' = resp
               /\ phase' = [phase EXCEPT ![r] = "uploading"]
    /\ UNCHANGED <<printQueue, isPrinting, receiptAcceptanceEnabled,
                   executing, startOrder, enqOrder, outcome>>
    /\ UNCHANGED <<rootVars, jobVars>>

\* The upload is complete: fileFilter (150-155), then the handler up to
\* `await processImageForPrinter` (lines 203-220).
PrintImageHandler(r) ==
    /\ phase[r] = "uploading"
    /\ IF file[r] = "notimage"
       THEN /\ resp' = [resp EXCEPT ![r] = "500"]
            /\ phase' = [phase EXCEPT ![r] = "done"]
       ELSE IF file[r] = "nofile"
       THEN /\ resp' = [resp EXCEPT ![r] = "400"]
            /\ phase' = [phase EXCEPT ![r] = "done"]
       ELSE /\ resp' = resp
            /\ phase' = [phase EXCEPT ![r] = "rasterizing"]
    /\ UNCHANGED <<printQueue, isPrinting, receiptAcceptanceEnabled,
                   executing, startOrder, enqOrder, outcome, nReq, kind,
                   file>>
    /\ UNCHANGED <<rootVars, jobVars>>

\* A handler that enqueues the job whether or not the image decoded.
PrintImageResumeAlways(r) ==
    /\ phase[r] = "rasterizing"
    /\ phase' = [phase EXCEPT ![r] = "done"]
    /\ SetQ(enqueue(QState, r))
    /\ resp' = [resp EXCEPT ![r] = IF file[r] = "corrupt" THEN "500"
                                   ELSE "200"]
    /\ UNCHANGED <<receiptAcceptanceEnabled, outcome, nReq, kind, file>>
    /\ UNCHANGED <<rootVars, jobVars>>

\* processImageForPrinter (93-117) settles and the handler continues:
\* lines 220-223 when it resolved, the catch of lines 224-230 when sharp
\* rejected the bytes.
PrintImageResume(r) ==
    /\ phase[r] = "rasterizing"
    /\ phase' = [phase EXCEPT ![r] = "done"]
    /\ IF file[r] = "corrupt"
       THEN /\ resp' = [resp EXCEPT ![r] = "500"]
            /\ SetQ(QState)
       ELSE /\ SetQ(enqueue(QState, r))
            /\ resp' = [resp EXCEPT ![r] = "200"]
    /\ UNCHANGED <<receiptAcceptanceEnabled, outcome, nReq, kind, file>>
    /\ UNCHANGED <<rootVars, jobVars>>

\* job() resolves and processQueue continues (lines 48, 53-54).
JobComplete(j) ==
    /\ j \in executing
    /\ outcome' = [outcome EXCEPT ![j] = "ok"]
    /\ SetQ(resumeResolved(QState, j))
    /\ UNCHANGED <<receiptAcceptanceEnabled, nReq, kind, file, phase, resp>>
    /\ UNCHANGED <<rootVars, jobVars>>

\* job() rejects and processQueue continues through its catch (49-54).
JobFail(j) ==
    /\ j \in executing
    /\ outcome' = [outcome EXCEPT ![j] = "failed"]
    /\ SetQ(resumeRejected(QState, j))
    /\ resp' = catchResponses(resp, j)
    /\ UNCHANGED <<receiptAcceptanceEnabled, nReq, kind, file, phase>>
    /\ UNCHANGED <<rootVars, jobVars>>

\* POST /admin/toggle with a boolean body, lines 253-267.  (A non-boolean
\* body is answered 400 and changes nothing.)
AdminToggle(enabled) ==
    /\ receiptAcceptanceEnabled' = enabled
    /\ UNCHANGED <<printQueue, isPrinting, executing, startOrder, enqOrder,
                   outcome, nReq, kind, file, phase, resp>>
    /\ UNCHANGED <<rootVars, jobVars>>

Next ==
    \/ \E text \in Texts : PrintText(text)
    \/ \E f \in Files : PrintImageAccept(f)
    \/ \E r \in Requests : PrintImageHandler(r)
    \/ \E r \in Requests : PrintImageResume(r)
    \/ \E j \in Requests : JobComplete(j)
    \/ \E j \in Requests : JobFail(j)
    \/ \E enabled \in BOOLEAN : AdminToggle(enabled)

Spec == Init /\ [][Next]_vars

\* Every started job eventually completes or fails, and every pending
\* handler continuation eventually runs.
FairSpec ==
    /\ Spec
    /\ \A j \in Requests : WF_vars(JobComplete(j) \/ JobFail(j))
    /\ \A r \in Requests : WF_vars(PrintImageHandler(r))
    /\ \A r \in Requests : WF_vars(PrintImageResume(r))

\* ------------------------------------------------------------------------
\* Helpers for stating properties.

RECURSIVE Count(_, _)
Count(s, x) ==
    IF s = << >> THEN 0
    ELSE (IF Head(s) = x THEN 1 ELSE 0) + Count(Tail(s), x)

Range(s) == {s[i] : i \in 1..Len(s)}

\* Position of x in s (0 when absent).
Pos(s, x) ==
    IF x \in Range(s) THEN CHOOSE i \in 1..Len(s) : s[i] = x ELSE 0

Settled == {j \in Requests : outcome[j] # "none"}

Started == Range(startOrder)

Enqueued == Range(enqOrder)

\* a's job was started before b's job was.
StartsBefore(a, b) ==
    /\ a \in Started
    /\ b \in Started => Pos(startOrder, a) < Pos(startOrder, b)

\* ------------------------------------------------------------------------
\* C1: at most one job is executing at any instant: every job started
\* before the latest one has completed or failed.
C1_AtMostOneExecuting ==
    /\ Cardinality(executing) <= 1
    /\ \A i \in 1..(Len(startOrder) - 1) : outcome[startOrder[i]] # "none"

\* A job runs, another waits, and an earlier one has already settled.
C1_Witness ==
    /\ Cardinality(executing) = 1
    /\ Len(printQueue) >= 1
    /\ Settled # {}

\* C2: jobs start in the order enqueue was called: if enqueue(a) preceded
\* enqueue(b) and b has started, then a started before b and has already
\* completed or failed, whatever the handlers and outcomes.
C2_StartOrderIsEnqueueOrder ==
    \A a \in Enqueued : \A b \in Enqueued :
        (Pos(enqOrder, a) < Pos(enqOrder, b) /\ b \in Started)
            => /\ a \in Started
               /\ Pos(startOrder, a) < Pos(startOrder, b)
               /\ outcome[a] # "none"

\* Three jobs from both handlers have started, one of them failed.
C2_Witness ==
    /\ Len(startOrder) >= 3
    /\ \E j \in Started : outcome[j] = "failed"
    /\ \E j \in Started : kind[j] = "text"
    /\ \E j \in Started : kind[j] = "image"

\* C3: every enqueued job is eventually started, and no job is ever started
\* more often than it was enqueued (once), given that every started job
\* eventually completes or fails.
C3_EveryJobRunsExactlyOnce ==
    /\ [](\A j \in Requests :
              /\ Count(startOrder, j) <= Count(enqOrder, j)
              /\ Count(enqOrder, j) <= 1)
    /\ \A j \in Requests :
          (j \in Enqueued) ~> (Count(startOrder, j) = 1)

\* Three or more jobs were enqueued and all of them have run.
C3_Witness ==
    /\ Len(enqOrder) >= 3
    /\ Len(startOrder) = Len(enqOrder)
    /\ executing = {}

\* C4: the printing flag is true exactly when a job is executing.
C4_PrintingIffExecuting == isPrinting <=> (executing # {})

\* A job has settled and the next one is running: the flag is up again.
C4_Witness ==
    /\ isPrinting
    /\ executing # {}
    /\ Settled # {}

\* C5: when the executing job fails, it is neither re-inserted nor re-run;
\* with jobs pending, exactly the head job is removed and started and the
\* rest keep their places; with none pending the flag is reset.
C5_FailureIsIsolated ==
    [][\A j \in Requests :
          (outcome[j] = "none" /\ outcome'[j] = "failed") =>
            /\ j \notin Range(printQueue')
            /\ j \notin executing'
            /\ Count(startOrder', j) = 1
            /\ IF printQueue = << >>
               THEN /\ ~isPrinting'
                    /\ printQueue' = << >>
                    /\ executing' = {}
                    /\ startOrder' = startOrder
               ELSE /\ isPrinting'
                    /\ printQueue' = Tail(printQueue)
                    /\ executing' = {Head(printQueue)}
                    /\ startOrder' = Append(startOrder, Head(printQueue))
      ]_vars

\* A job failed, the job behind it is running and another is still pending.
C5_Witness ==
    \E j \in Started :
        /\ outcome[j] = "failed"
        /\ Pos(startOrder, j) + 1 = Len(startOrder)
        /\ executing = {startOrder[Len(startOrder)]}
        /\ printQueue # << >>

\* C6: an image whose bytes cannot be decoded is never enqueued: no step of
\* its handler changes the queue or the flag, and the step in which the
\* rasterizer fails answers with status 500.
C6_DecodeFailureNeverEnqueues ==
    [][\A r \in Requests :
          file'[r] = "corrupt" =>
            /\ r \notin Range(enqOrder')
            /\ r \notin Range(printQueue')
            /\ r \notin executing'
            /\ phase'[r] # phase[r] =>
                 /\ printQueue' = printQueue
                 /\ isPrinting' = isPrinting
                 /\ enqOrder' = enqOrder
                 /\ executing' = executing
            /\ (phase[r] = "rasterizing" /\ phase'[r] = "done")
                 => resp'[r] = "500"
      ]_vars

\* An undecodable image was answered 500 while the queue was busy.
C6_Witness ==
    \E r \in Requests :
        /\ file[r] = "corrupt"
        /\ phase[r] = "done"
        /\ resp[r] = "500"
        /\ isPrinting
        /\ printQueue # << >>

\* Jobs enqueued and not yet completed or failed.
Unsettled == Len(enqOrder) - Cardinality(Settled)

\* C7: with K >= 1 jobs enqueued and none of them settled, status() reports
\* length K-1 and printing; in steps without an enqueue the length never
\* grows and drops by exactly one exactly when a job starts; printing is
\* reported exactly while a job executes.
C7_StatusDuringDrain ==
    [][/\ Unsettled' >= 1 =>
            /\ getQueueStatus'.length = Unsettled' - 1
            /\ getQueueStatus'.printing
       /\ enqOrder' = enqOrder =>
            /\ getQueueStatus'.length \in
                   {getQueueStatus.length, getQueueStatus.length - 1}
            /\ (getQueueStatus'.length = getQueueStatus.length - 1)
                   <=> (startOrder' # startOrder)
            /\ Len(startOrder') <= Len(startOrder) + 1
       /\ getQueueStatus'.printing <=> (executing' # {})
      ]_vars

\* Three jobs were enqueued, two have settled and the last one is running
\* with nothing left pending.
C7_Witness ==
    /\ Len(enqOrder) >= 3
    /\ Cardinality(Settled) >= 2
    /\ getQueueStatus = [length |-> 0, printing |-> TRUE]

\* C8: the reported length is the number of jobs enqueued and not yet
\* started; the executing job is not counted, so length, plus one when
\* printing, plus the jobs completed or failed, is the number of enqueues.
C8_LengthExcludesInFlight ==
    /\ getQueueStatus.length = Len(enqOrder) - Len(startOrder)
    /\ executing \cap Range(printQueue) = {}
    /\ getQueueStatus.length + (IF getQueueStatus.printing THEN 1 ELSE 0)
           + Cardinality(Settled) = Len(enqOrder)

\* One job settled, one executing, one pending.
C8_Witness ==
    /\ getQueueStatus.printing
    /\ getQueueStatus.length >= 1
    /\ Settled # {}

\* C9 as stated: of two accepted submissions, the one received first has its
\* job executed first (requests are numbered in the order received).
C9_ReceiptOrderIsStartOrder ==
    \A a \in Requests : \A b \in Requests :
        (a < b /\ resp[a] = "200" /\ resp[b] = "200" /\ b \in Started)
            => StartsBefore(a, b)

\* C9 amended: jobs execute in the order of their enqueue calls; a text
\* submission is enqueued in the turn it is received, so it executes before
\* every submission received after it; an image submission is enqueued only
\* when its rasterization completes.
C9_EnqueueOrderIsStartOrder ==
    \A a \in Requests : \A b \in Requests :
        (resp[a] = "200" /\ resp[b] = "200" /\ b \in Started /\ a # b)
            => /\ a \in Enqueued /\ b \in Enqueued
               /\ Pos(enqOrder, a) < Pos(enqOrder, b) => StartsBefore(a, b)
               /\ (a < b /\ kind[a] = "text") => StartsBefore(a, b)

\* An image received first was executed after a text received later.
C9_Witness ==
    \E a \in Started : \E b \in Started :
        /\ a < b
        /\ kind[a] = "image"
        /\ kind[b] = "text"
        /\ Pos(startOrder, b) < Pos(startOrder, a)

\* C10: the step that enqueues a submission's job answers it with 200 while
\* the job has not finished, and a response once sent is never changed: a
\* later completion or failure of the job is not reported to the submitter.
C10_AckDoesNotWaitForJob ==
    [][\A r \in Requests :
          /\ (r \notin Enqueued /\ r \in Range(enqOrder'))
                => (resp'[r] = "200" /\ outcome'[r] = "none")
          /\ r \in Enqueued => (resp[r] = "200" /\ resp'[r] = "200")
          /\ resp[r] # "none" => resp'[r] = resp[r]
      ]_vars

\* A submission was acknowledged with 200 and its job failed afterwards.
C10_Witness ==
    \E r \in Requests :
        /\ resp[r] = "200"
        /\ outcome[r] = "failed"

\* ------------------------------------------------------------------------
\* The root-level server (src/server.js): the same two routes, but each
\* handler drives the printer itself; there is no queue and no flag.

queueVars == <<printQueue, isPrinting, receiptAcceptanceEnabled, executing,
               startOrder, enqOrder, outcome, nReq, kind, file, phase, resp>>

\* Requests whose printer.execute call has been issued and whose callback
\* has not run yet.
RootExecuting == {r \in RootRequests : rootReq[r].phase = "executing"}

\* POST /print, lines 106-121: printReceipt (54-100) fills the buffer,
\* calls printer.execute with a callback and returns at once; the response
\* is sent in the same turn.
RootPrintText(text) ==
    /\ rootN < MaxRootReq
    /\ rootN' = rootN + 1
    /\ rootReq' = [rootReq EXCEPT ![rootN + 1] =
          IF text = ""
          THEN [kind |-> "text", file |-> "nofile", phase |-> "done",
                resp |-> "400"]
          ELSE [kind |-> "text", file |-> "nofile", phase |-> "executing",
                resp |-> "200"]]
    /\ UNCHANGED <<queueVars, jobVars>>

\* POST /print-image arrives and multer reads the body (line 124).
RootPrintImage(f) ==
    /\ rootN < MaxRootReq
    /\ rootN' = rootN + 1
    /\ rootReq' = [rootReq EXCEPT ![rootN + 1] =
          [kind |-> "image", file |-> f, phase |-> "uploading",
           resp |-> "none"]]
    /\ UNCHANGED <<queueVars, jobVars>>

\* The upload is complete: fileFilter (19-25), then the handler up to the
\* awaited sharp pipeline (lines 125-147).
RootImageHandler(r) ==
    /\ rootReq[r].phase = "uploading"
    /\ rootReq' = [rootReq EXCEPT ![r] =
          IF rootReq[r].file = "notimage"
          THEN [@ EXCEPT !.phase = "done", !.resp = "500"]
          ELSE IF rootReq[r].file = "nofile"
          THEN [@ EXCEPT !.phase = "done", !.resp = "400"]
          ELSE [@ EXCEPT !.phase = "rasterizing"]]
    /\ UNCHANGED <<rootN, queueVars, jobVars>>

\* The sharp pipeline settles: on rejection the catch of lines 210-216; else
\* dithering and the header, up to `await printer.printImageBuffer`
\* (lines 150-185).
RootImageRaster(r) ==
    /\ rootReq[r].phase = "rasterizing"
    /\ rootReq' = [rootReq EXCEPT ![r] =
          IF rootReq[r].file = "corrupt"
          THEN [@ EXCEPT !.phase = "done", !.resp = "500"]
          ELSE [@ EXCEPT !.phase = "imagebuf"]]
    /\ UNCHANGED <<rootN, queueVars, jobVars>>

\* printImageBuffer resolves: footer, cut, printer.execute with a callback,
\* and the response at once (lines 186-209).
RootImageExecute(r) ==
    /\ rootReq[r].phase = "imagebuf"
    /\ rootReq' = [rootReq EXCEPT ![r] =
          [@ EXCEPT !.phase = "executing", !.resp = "200"]]
    /\ UNCHANGED <<rootN, queueVars, jobVars>>

\* The callback of printer.execute runs (lines 89-93, 200-206): the device
\* call is over; an error is only logged.
RootExecuteCallback(r, err) ==
    /\ rootReq[r].phase = "executing"
    /\ rootReq' = [rootReq EXCEPT ![r] =
          [@ EXCEPT !.phase = IF err THEN "failed" ELSE "done"]]
    /\ UNCHANGED <<rootN, queueVars, jobVars>>

RootNext ==
    \/ \E text \in Texts : RootPrintText(text)
    \/ \E f \in Files : RootPrintImage(f)
    \/ \E r \in RootRequests : RootImageHandler(r)
    \/ \E r \in RootRequests : RootImageRaster(r)
    \/ \E r \in RootRequests : RootImageExecute(r)
    \/ \E r \in RootRequests : \E err \in BOOLEAN : RootExecuteCallback(r, err)

RootSpec == Init /\ [][RootNext]_vars

\* C11: at most one print operation is active against the device, also for
\* the routes of the root-level server: two of its requests never have
\* their device execute calls in flight at the same time.
C11_RootAtMostOneExecute == Cardinality(RootExecuting) <= 1

\* ------------------------------------------------------------------------
\* C12: a drain attempt made while a job is executing, or while the queue is
\* empty, starts no job, removes nothing and leaves the flag as it is, and
\* a second attempt changes nothing either.
C12_DrainAttemptIsNoOp ==
    (isPrinting \/ printQueue = << >>) =>
        /\ processQueue(QState) = QState
        /\ processQueue(processQueue(QState)) = processQueue(QState)

\* A job is executing with two jobs pending: the attempts made by the two
\* later enqueue calls found the flag raised.
C12_Witness ==
    /\ isPrinting
    /\ Len(printQueue) = 2
    /\ Len(startOrder) = Len(enqOrder) - 2

\* The job enqueued by this step, if any.
NewlyEnqueued == {r \in Requests : r \notin Enqueued /\ r \in Range(enqOrder')}

\* C13: every accepted submission is enqueued; enqueue while a job executes
\* appends exactly the new job at the tail, keeps the pending jobs, the flag
\* and the executing job, and does not start the new job; enqueue on an idle
\* empty queue starts the new job at once: printing true, length 0.
C13_EnqueueEffect ==
    [][\A r \in Requests :
          /\ (resp[r] = "none" /\ resp'[r] = "200") => r \in NewlyEnqueued
          /\ r \in NewlyEnqueued =>
               /\ enqOrder' = Append(enqOrder, r)
               /\ IF isPrinting
                  THEN /\ printQueue' = Append(printQueue, r)
                       /\ isPrinting'
                       /\ executing' = executing
                       /\ startOrder' = startOrder
                  ELSE /\ printQueue = << >>
                       /\ startOrder' = Append(startOrder, r)
                       /\ executing' = {r}
                       /\ getQueueStatus' = [length |-> 0, printing |-> TRUE]
      ]_vars

\* The first job was started by its enqueue and is still executing; the
\* jobs enqueued after it are all pending, in order.
C13_Witness ==
    /\ Len(enqOrder) >= 2
    /\ startOrder = <<enqOrder[1]>>
    /\ executing = {enqOrder[1]}
    /\ printQueue = Tail(enqOrder)

IsPrefix(a, b) == Len(a) <= Len(b) /\ SubSeq(b, 1, Len(a)) = a

\* C14: as long as the executing job has not completed or failed, every
\* step leaves it executing and the flag true, starts no other job, and
\* changes the pending queue only by appending newly enqueued jobs: nothing
\* but the job's own settlement ends it or removes a job.
C14_HungJobStallsQueue ==
    [][\A j \in executing :
          outcome'[j] = "none" =>
            /\ j \in executing'
            /\ isPrinting'
            /\ startOrder' = startOrder
            /\ IsPrefix(printQueue, printQueue')
            /\ \A r \in NewlyEnqueued : printQueue' = Append(printQueue, r)
            /\ Len(printQueue') - Len(printQueue) = Cardinality(NewlyEnqueued)
      ]_vars

\* The first job never settled while two more submissions were accepted:
\* both are pending behind it.
C14_Witness ==
    /\ Settled = {}
    /\ Cardinality(executing) = 1
    /\ Len(printQueue) >= 2
    /\ \A r \in Range(printQueue) : resp[r] = "200"

\* C17: between event-loop turns, if the flag is false the pending queue is
\* empty: no job waits while none executes.
C17_IdleImpliesEmpty == ~isPrinting => printQueue = << >>

\* The queue is idle again after jobs that completed and jobs that failed.
C17_Witness ==
    /\ ~isPrinting
    /\ printQueue = << >>
    /\ \E j \in Requests : outcome[j] = "ok"
    /\ \E j \in Requests : outcome[j] = "failed"

\* The effect of a step on the pending queue keeps FIFO order: the new job,
\* if any, goes to the tail, and at most the head is taken, to be started.
FifoStep ==
    LET q1 == IF NewlyEnqueued = {} THEN printQueue
              ELSE Append(printQueue, CHOOSE r \in NewlyEnqueued : TRUE)
    IN \/ printQueue' = q1 /\ startOrder' = startOrder
       \/ /\ q1 # << >>
          /\ printQueue' = Tail(q1)
          /\ startOrder' = Append(startOrder, Head(q1))

\* The submission received by this step, if any.
NewlyReceived == {r \in Requests : nReq < r /\ r <= nReq'}

\* C18 as stated: while acceptance is disabled every submission is rejected
\* and nothing is enqueued, so the queue only shrinks; pending and executing
\* jobs stay and run in FIFO order; with acceptance enabled submissions are
\* enqueued as usual.
C18_DisabledQueueOnlyShrinks ==
    [][/\ ~receiptAcceptanceEnabled =>
            /\ \A r \in NewlyReceived : resp'[r] = "403"
            /\ NewlyEnqueued = {}
            /\ Len(printQueue') <= Len(printQueue)
       /\ FifoStep
       /\ receiptAcceptanceEnabled =>
            \A r \in NewlyReceived :
                /\ resp'[r] # "403"
                /\ resp'[r] = "200" => r \in NewlyEnqueued
      ]_vars

\* C18 amended: while acceptance is disabled every submission received is
\* rejected and enqueues nothing; the queue grows only by image submissions
\* that passed the acceptance check earlier and whose rasterization
\* completes now; pending and executing jobs stay and run in FIFO order;
\* with acceptance enabled submissions are enqueued as usual.
C18_DisabledRejectsNewSubmissions ==
    [][/\ ~receiptAcceptanceEnabled =>
            /\ \A r \in NewlyReceived :
                   resp'[r] = "403" /\ r \notin Range(enqOrder')
            /\ \A r \in NewlyEnqueued :
                   /\ r <= nReq
                   /\ kind[r] = "image"
                   /\ phase[r] = "rasterizing"
            /\ NewlyEnqueued = {} => Len(printQueue') <= Len(printQueue)
       /\ FifoStep
       /\ receiptAcceptanceEnabled =>
            \A r \in NewlyReceived :
                /\ resp'[r] # "403"
                /\ resp'[r] = "200" => r \in NewlyEnqueued
      ]_vars

\* Acceptance is disabled, a submission was rejected, and an image received
\* before it has been enqueued and not yet finished.
C18_Witness ==
    /\ ~receiptAcceptanceEnabled
    /\ \E r \in Requests : \E a \in Requests :
          /\ resp[r] = "403"
          /\ a < r
          /\ kind[a] = "image"
          /\ a \in Enqueued
          /\ outcome[a] = "none"

\* ------------------------------------------------------------------------
\* A text job: printTextReceipt and the printer helpers.  textJob.log is the
\* sequence of calls the job has made on its ThermalPrinter object.

\* Number of text jobs run one after the other.
MaxJobs == 2

\* Bodies of accepted /print requests (non-empty, see line 186).
JobTexts == {"hello", "bye"}

\* Values of `req.get('host') || ''` (line 193).
Domains == {"", "eastonco.net", "mystraightfriends.com"}

\* One call on the printer object.
Cmd(op, arg) == [op |-> op, arg |-> arg]

\* addHeader, lines 68-78.
addHeader(log, title) ==
    log \o << Cmd("alignCenter", << >>),
              Cmd("drawLine", << >>),
              Cmd("setTypeFontB", << >>),
              Cmd("bold", <<"true">>),
              Cmd("println", <<title>>),
              Cmd("bold", <<"false">>),
              Cmd("setTypeFontA", << >>),
              Cmd("drawLine", << >>),
              Cmd("newLine", << >>) >>

\* addFooter without the `if (domain)` test.
addFooterAlwaysFrom(log, domain) ==
    log \o << Cmd("drawLine", << >>),
              Cmd("println", <<"Date: ", "date", "time">>),
              Cmd("println", <<"From: ", domain>>),
              Cmd("drawLine", << >>),
              Cmd("cut", << >>) >>

\* addFooter, lines 80-89.  The date and time strings are left abstract.
addFooter(log, domain) ==
    log \o << Cmd("drawLine", << >>),
              Cmd("println", <<"Date: ", "date", "time">>) >>
        \o (IF domain # "" THEN << Cmd("println", <<"From: ", domain>>) >>
            ELSE << >>)
        \o << Cmd("drawLine", << >>),
              Cmd("cut", << >>) >>

\* printTextReceipt, lines 121-128: everything up to the await, the call of
\* printer.execute included.
printTextReceipt(text, domain) ==
    LET header == addHeader(<< >>, "RECEIPT")
        body == header \o << Cmd("alignLeft", << >>),
                             Cmd("println", <<text>>),
                             Cmd("newLine", << >>) >>
    IN Append(addFooter(body, domain), Cmd("execute", << >>))

\* The queue calls job(): printTextReceipt runs up to `await
\* printer.execute()` (line 128).
TextJobStart(text, domain) ==
    /\ textJob.pc \in {"idle", "done", "failed"}
    /\ textJob.n < MaxJobs
    /\ textJob' = [pc |-> "running", exec |-> "pending", text |-> text,
                   domain |-> domain,
                   log |-> printTextReceipt(text, domain),
                   n |-> textJob.n + 1]
    /\ paper' = paper
    /\ UNCHANGED <<queueVars, rootVars>>

\* printer.execute resolves: the buffer is on paper, the job logs and
\* returns (lines 128-130).
TextJobExecuteResolve ==
    /\ textJob.exec = "pending"
    /\ textJob' = [textJob EXCEPT !.exec = "resolved", !.pc = "done"]
    /\ paper' = Append(paper, textJob.log)
    /\ UNCHANGED <<queueVars, rootVars>>

\* printer.execute rejects: the job's promise rejects with it.
TextJobExecuteReject ==
    /\ textJob.exec = "pending"
    /\ textJob' = [textJob EXCEPT !.exec = "rejected", !.pc = "failed"]
    /\ paper' = paper
    /\ UNCHANGED <<queueVars, rootVars>>

TextJobNext ==
    \/ \E text \in JobTexts : \E domain \in Domains :
           TextJobStart(text, domain)
    \/ TextJobExecuteResolve
    \/ TextJobExecuteReject

TextJobSpec == Init /\ [][TextJobNext]_vars

\* The calls that put something on paper or end the job, in order.
Visible(log) ==
    SelectSeq(log, LAMBDA c :
        c.op \in {"println", "drawLine", "newLine", "cut", "execute"})

\* The last call before position i whose op is in ops (a call with op
\* `none` when there is none).
LastBefore(log, i, ops) ==
    LET idx == {k \in 1..(i - 1) : log[k].op \in ops}
    IN IF idx = {} THEN Cmd("none", << >>)
       ELSE log[CHOOSE k \in idx : \A m \in idx : m <= k]

\* Position of the first println of the given line (0 when absent).
LinePos(log, line) ==
    LET idx == {k \in 1..Len(log) : log[k] = Cmd("println", line)}
    IN IF idx = {} THEN 0 ELSE CHOOSE k \in idx : \A m \in idx : k <= m

\* The title is printed centered and bold, the body left-aligned and not
\* bold; execute is called once, as the last call, and the job is complete
\* only when execute has resolved.
TextJobFormatAndFlush ==
    LET log == textJob.log
        t == LinePos(log, <<"RECEIPT">>)
        b == LinePos(log, <<textJob.text>>)
    IN /\ t > 0 /\ b > 0
       /\ LastBefore(log, t, {"alignCenter", "alignLeft"}).op = "alignCenter"
       /\ LastBefore(log, t, {"bold"}).arg = <<"true">>
       /\ LastBefore(log, b, {"alignCenter", "alignLeft"}).op = "alignLeft"
       /\ LastBefore(log, b, {"bold"}).arg = <<"false">>
       /\ Cardinality({k \in 1..Len(log) : log[k].op = "execute"}) = 1
       /\ log[Len(log)].op = "execute"
       /\ log[Len(log) - 1].op = "cut"
       /\ textJob.pc = "done" <=> textJob.exec = "resolved"
       /\ textJob.pc = "running" <=> textJob.exec = "pending"

\* The footer lines, as the claim lists them.
FooterLines ==
    << Cmd("drawLine", << >>),
       Cmd("println", <<"Date: ", "date", "time">>) >>
    \o (IF textJob.domain # ""
        THEN << Cmd("println", <<"From: ", textJob.domain>>) >> ELSE << >>)
    \o << Cmd("drawLine", << >>), Cmd("cut", << >>),
          Cmd("execute", << >>) >>

\* C15 as stated: title, rule, body, blank line, rule, timestamp, the
\* attribution iff the domain is non-empty, rule, cut, then execute, once,
\* and the job completes only after it resolves.
C15_CommandOrderAsStated ==
    textJob.pc # "idle" =>
        /\ Visible(textJob.log) =
              << Cmd("println", <<"RECEIPT">>),
                 Cmd("drawLine", << >>),
                 Cmd("println", <<textJob.text>>),
                 Cmd("newLine", << >>) >> \o FooterLines
        /\ TextJobFormatAndFlush

\* C15 amended: rule, title, rule, blank line, body, blank line, rule,
\* timestamp, the attribution iff the domain is non-empty, rule, cut, then
\* execute, once, and the job completes only after it resolves.
C15_CommandOrder ==
    textJob.pc # "idle" =>
        /\ Visible(textJob.log) =
              << Cmd("drawLine", << >>),
                 Cmd("println", <<"RECEIPT">>),
                 Cmd("drawLine", << >>),
                 Cmd("newLine", << >>),
                 Cmd("println", <<textJob.text>>),
                 Cmd("newLine", << >>) >> \o FooterLines
        /\ TextJobFormatAndFlush

\* A job without a domain has been printed and a job with a domain has
\* issued its commands and awaits execute.
C15_Witness ==
    /\ textJob.pc = "running"
    /\ textJob.domain # ""
    /\ Len(paper) = 1
    /\ Len(paper[1]) + 1 = Len(textJob.log)

====
